---------------------------- MODULE Spec2Model ----------------------------
(***************************************************************************)
(* A state-machine model of the tile-based Gaussian splatting rasterizer:  *)
(*   - the tile mapper   (src/gaussian_rasterizer/tile_mapper.py),         *)
(*   - the forward pass  (src/taichi_splatting/rasterizer/forward.py),     *)
(*   - the backward pass (src/taichi_splatting/rasterizer/backward.py).    *)
(*                                                                         *)
(* Conventions.                                                            *)
(*  * Arrays are functions over 0..n-1, so that every index expression is  *)
(*    the one of the source.                                               *)
(*  * Real numbers (alpha, transmittance, features, gradients) are exact   *)
(*    rationals <<numerator, denominator>>; f32 rounding is not modelled.  *)
(*  * Screen coordinates (uv, radius) are kept in half-pixel units, so a   *)
(*    pixel centre px + 0.5 is the integer 2*px + 1.                       *)
(*  * A depth is represented by ti.bit_cast(depth, i32), the only thing    *)
(*    the mapper reads of it; for the finite non-negative depths the       *)
(*    mapper requires, that integer is non-negative and ordered as the     *)
(*    depth itself.                                                        *)
(*  * A thread block is tile_size^2 = 4 lanes, which fits one warp: the    *)
(*    lanes of a block run each barrier-delimited section together, and    *)
(*    the blocks (tiles) interleave freely.                                *)
(***************************************************************************)
EXTENDS Integers, Sequences, FiniteSets, TLC

(***************************************************************************)
(* Bounds of the model.                                                    *)
(***************************************************************************)
\* largest number of Gaussians given to the tile mapper alone (SpecMap)
MapGaussians == 2
\* largest number of Gaussians rendered by the full pipeline (Spec)
MaxGaussians == 5

(***************************************************************************)
(* Small helpers.                                                          *)
(***************************************************************************)
Min(a, b) == IF a < b THEN a ELSE b
Max(a, b) == IF a > b THEN a ELSE b
Abs(a) == IF a < 0 THEN -a ELSE a
ArrLen(a) == Cardinality(DOMAIN a)

RECURSIVE Gcd(_, _)
Gcd(a, b) == IF b = 0 THEN a ELSE Gcd(b, a % b)

RECURSIVE Pow2(_)
Pow2(e) == IF e = 0 THEN 1 ELSE 2 * Pow2(e - 1)

(***************************************************************************)
(* Exact rational arithmetic, standing for the kernels' f32 arithmetic.    *)
(***************************************************************************)
Rat(n, d) == LET g == Gcd(Abs(n), d) IN <<n \div g, d \div g>>
RZero == <<0, 1>>
ROne == <<1, 1>>
RAdd(a, b) ==
  LET g == Gcd(a[2], b[2])
  IN  Rat(a[1] * (b[2] \div g) + b[1] * (a[2] \div g), (a[2] \div g) * b[2])
RNeg(a) == <<-a[1], a[2]>>
RSub(a, b) == RAdd(a, RNeg(b))
RMul(a, b) ==
  LET g1 == Gcd(Abs(a[1]), b[2])
      g2 == Gcd(Abs(b[1]), a[2])
  IN  <<(a[1] \div g1) * (b[1] \div g2), (a[2] \div g2) * (b[2] \div g1)>>
RInv(a) == IF a[1] < 0 THEN <<-a[2], -a[1]>> ELSE <<a[2], a[1]>>
RDiv(a, b) == RMul(a, RInv(b))
RLt(a, b) ==
  LET g == Gcd(a[2], b[2])
  IN  a[1] * (b[2] \div g) < b[1] * (a[2] \div g)
RLe(a, b) == ~RLt(b, a)
RMin(a, b) == IF RLt(b, a) THEN b ELSE a

(***************************************************************************)
(* Configuration (RasterConfig) of the modelled instance.  The thresholds  *)
(* are dyadic so that every product stays a small exact rational.          *)
(***************************************************************************)
tile_size == 2
tile_area == tile_size * tile_size
alpha_threshold == <<1, 4>>
clamp_max_alpha == <<3, 4>>
saturate_threshold == <<7, 8>>

(***************************************************************************)
(* State.                                                                  *)
(***************************************************************************)
VARIABLES
  \* ---- inputs
  gaussians,            \* array of [uv, radius, alpha, feature, depth]
  image_size,           \* <<width, height>> in pixels
  pixel_stride,         \* config.pixel_stride
  grad_image_feature,   \* upstream gradient, per pixel
  \* ---- host program position
  phase,
  \* ---- tile mapper
  tile_overlap_ranges,  \* per Gaussian: <<min_tx, min_ty, max_tx, max_ty>>
  cum_overlap_counts,   \* exclusive prefix sum of the overlap counts
  overlap_key,          \* sorted keys, [tile, depth] for tile << 32 + depth
  overlap_to_point,     \* sorted overlap index -> Gaussian index
  tile_ranges,          \* tile id -> <<start, end>>
  \* ---- forward kernel
  fwd,                  \* tile -> lane -> the lane's registers
  fwd_scratch,          \* tile -> slot -> tile_point / tile_feature
  image_feature, image_alpha, image_last_valid,
  \* ---- backward kernel
  bwd,                  \* tile -> lane -> the lane's registers
  bwd_scratch,          \* tile -> slot -> shared arrays of the block
  grad_points, grad_features

vars == <<gaussians, image_size, pixel_stride, grad_image_feature, phase,
          tile_overlap_ranges, cum_overlap_counts, overlap_key,
          overlap_to_point, tile_ranges,
          fwd, fwd_scratch, image_feature, image_alpha, image_last_valid,
          bwd, bwd_scratch, grad_points, grad_features>>

map_vars == <<tile_overlap_ranges, cum_overlap_counts, overlap_key,
              overlap_to_point, tile_ranges>>
fwd_vars == <<fwd, fwd_scratch, image_feature, image_alpha, image_last_valid>>
bwd_vars == <<bwd, bwd_scratch, grad_points, grad_features>>
input_vars == <<gaussians, image_size, pixel_stride, grad_image_feature>>

Empty == [i \in {} |-> 0]
NumPoints == ArrLen(gaussians)
Points == 0 .. NumPoints - 1

(***************************************************************************)
(* Tile mapper.                                                            *)
(***************************************************************************)
\* tile grid of the mapper: image_size // tile_size
tiles_wide == image_size[1] \div tile_size
tiles_high == image_size[2] \div tile_size
num_tiles == tiles_wide * tiles_high
Tiles == 0 .. num_tiles - 1

\* gaussian_tile_ranges: <<min_tx, min_ty, max_tx, max_ty>> of one Gaussian
TileBound1(uv2, radius2, size) ==
  LET radius == Max(radius2, 2)                    \* ti.max(radius, 1.0)
      min_bound == Max(0, uv2 - radius)
      max_bound == uv2 + radius
      max_tile == size \div tile_size
      min_tile_bound == Min(min_bound \div (2 * tile_size), max_tile)
      max_tile_bound0 == (max_bound \div (2 * tile_size)) + 1
      max_tile_bound == Min(Max(max_tile_bound0, min_tile_bound + 1), max_tile)
  IN  <<min_tile_bound, max_tile_bound>>

gaussian_tile_ranges(g, size) ==
  LET bx == TileBound1(g.uv[1], g.radius, size[1])
      by == TileBound1(g.uv[2], g.radius, size[2])
  IN  <<bx[1], by[1], bx[2], by[2]>>

\* tile_overlaps_kernel: counts[idx + 1] = size.x * size.y
OverlapCount(r) == (r[3] - r[1]) * (r[4] - r[2])

RECURSIVE CumSum(_, _)
\* sum of counts[0 .. n-1]
CumSum(counts, n) == IF n = 0 THEN 0 ELSE CumSum(counts, n - 1) + counts[n - 1]

\* generate_tile_overlaps: per-Gaussian ranges, write offsets, total
TileOverlapRanges(gs, size) ==
  [idx \in DOMAIN gs |-> gaussian_tile_ranges(gs[idx], size)]
CumOverlapCounts(ranges) ==
  LET counts == [idx \in DOMAIN ranges |-> OverlapCount(ranges[idx])]
  IN  [idx \in DOMAIN ranges |-> CumSum(counts, idx)]
TotalOverlap(ranges) ==
  LET counts == [idx \in DOMAIN ranges |-> OverlapCount(ranges[idx])]
  IN  CumSum(counts, ArrLen(ranges))

\* (mutant of SortKey: the tile id goes to the lower half, the depth to the
\* upper half)
SortKeyHalvesSwapped(encoded_tile_id, encoded_depth_key) ==
  [tile |-> encoded_depth_key, depth |-> encoded_tile_id]

\* The 64-bit key cast(encoded_depth_key, i64) + (cast(tile_id, i64) << 32),
\* kept as its two 32-bit halves: the cast of a negative i32 sign-extends, so
\* it borrows one from the upper half.
SortKey(encoded_tile_id, encoded_depth_key) ==
  [tile |-> IF encoded_depth_key < 0 THEN encoded_tile_id - 1
                                     ELSE encoded_tile_id,
   depth |-> encoded_depth_key]

\* (mutant of KeyLess: the depth half of the key is ignored)
KeyLessTileOnly(k1, k2) == k1.tile < k2.tile

\* signed 64-bit comparison of two keys (the lower half compares unsigned)
KeyLess(k1, k2) ==
  \/ k1.tile < k2.tile
  \/ /\ k1.tile = k2.tile
     /\ \/ k1.depth >= 0 /\ k2.depth < 0
        \/ (k1.depth >= 0) = (k2.depth >= 0) /\ k1.depth < k2.depth

\* (mutant of OverlapIdx: the row stride taken from the other axis)
OverlapIdxWrongStride(u, v, tile_span) == v + u * tile_span[1]

\* generate_sort_keys_kernel: index in the Gaussian's overlap list of the tile
\* at offset (u, v) of its box
OverlapIdx(u, v, tile_span) == v + u * tile_span[2]

\* generate_sort_keys_kernel: the writes of Gaussian idx for the n-th and
\* later pairs (u, v) of ti.ndrange(tile_span.x, tile_span.y)
RECURSIVE EmitTiles(_, _, _, _, _, _)
EmitTiles(recs, idx, tile_range, offset, n, size) ==
  LET tile_span == <<tile_range[3] - tile_range[1], tile_range[4] - tile_range[2]>>
  IN  IF n >= tile_span[1] * tile_span[2] THEN recs
      ELSE LET u == n \div tile_span[2]
               v == n % tile_span[2]
               key_idx == offset + OverlapIdx(u, v, tile_span)
               tile_x == tile_range[1] + u
               tile_y == tile_range[2] + v
               encoded_tile_id == tile_x + tile_y * (size[1] \div tile_size)
               written == [recs EXCEPT ![key_idx] =
                             [key |-> SortKey(encoded_tile_id, gaussians[idx].depth),
                              point |-> idx]]
           IN  EmitTiles(written, idx, tile_range, offset, n + 1, size)

RECURSIVE EmitPoints(_, _, _, _, _)
EmitPoints(recs, idx, ranges, cum, size) ==
  IF idx >= ArrLen(ranges) THEN recs
  ELSE EmitPoints(EmitTiles(recs, idx, ranges[idx], cum[idx], 0, size),
                  idx + 1, ranges, cum, size)

\* sort_tile_depths up to the sort: zero-filled arrays, then the kernel
GenerateSortKeys(ranges, cum, size, total) ==
  EmitPoints([key_idx \in 0 .. total - 1 |-> [key |-> SortKey(0, 0), point |-> 0]],
             0, ranges, cum, size)

\* torch.sort: every permutation that puts the keys in ascending order
\* (equal keys may come out in any order)
RECURSIVE SortedOrders(_, _)
SortedOrders(recs, left) ==
  IF left = {} THEN {<<>>}
  ELSE LET least == {i \in left : \A j \in left : ~KeyLess(recs[j].key, recs[i].key)}
       IN  UNION {{<<i>> \o rest : rest \in SortedOrders(recs, left \ {i})} : i \in least}

\* find_ranges_kernel over the sorted keys, from a zero-filled table
RECURSIVE FindRangesScan(_, _, _)
FindRangesScan(keys, ranges, idx) ==
  IF idx >= ArrLen(keys) - 1 THEN ranges
  ELSE LET tile_id == keys[idx].tile
           next_tile_id == keys[idx + 1].tile
           r1 == IF tile_id # next_tile_id
                 THEN [ranges EXCEPT ![next_tile_id] = <<idx + 1, @[2]>>]
                 ELSE ranges
           r2 == IF tile_id # next_tile_id
                 THEN [r1 EXCEPT ![tile_id] = <<@[1], idx + 1>>]
                 ELSE r1
       IN  FindRangesScan(keys, r2, idx + 1)

\* (mutant of find_ranges_kernel: the end of the last tile is not written)
find_ranges_no_last(keys, ranges) == FindRangesScan(keys, ranges, 0)

find_ranges_kernel(keys, ranges) ==
  LET scanned == FindRangesScan(keys, ranges, 0)
      last_tile_id == keys[ArrLen(keys) - 1].tile
  IN  [scanned EXCEPT ![last_tile_id] = <<@[1], ArrLen(keys)>>]

\* map_to_tiles (tile_mapper.f)
MapToTiles ==
  /\ phase = "input"
  /\ tile_overlap_ranges' = TileOverlapRanges(gaussians, image_size)
  /\ cum_overlap_counts' = CumOverlapCounts(tile_overlap_ranges')
  /\ LET total_overlap == TotalOverlap(tile_overlap_ranges')
         zero_ranges == [t \in Tiles |-> <<0, 0>>]
     IN  IF total_overlap > 0
         THEN \E recs \in {GenerateSortKeys(tile_overlap_ranges',
                              cum_overlap_counts', image_size, total_overlap)} :
              \E order \in SortedOrders(recs, DOMAIN recs) :
                 /\ overlap_key' = [k \in DOMAIN recs |-> recs[order[k + 1]].key]
                 /\ overlap_to_point' =
                                [k \in DOMAIN recs |-> recs[order[k + 1]].point]
                 /\ tile_ranges' = find_ranges_kernel(overlap_key', zero_ranges)
         ELSE /\ overlap_key' = Empty
              /\ overlap_to_point' = Empty
              /\ tile_ranges' = zero_ranges
  /\ phase' = "mapped"
  /\ UNCHANGED <<input_vars, fwd_vars, bwd_vars>>

(***************************************************************************)
(* Forward rasterizer.                                                     *)
(***************************************************************************)
\* tile grid of the rasterizer kernels: image shape, rounded up
raster_tiles_wide == (image_size[1] + tile_size - 1) \div tile_size
raster_tiles_high == (image_size[2] + tile_size - 1) \div tile_size
RasterTiles == 0 .. raster_tiles_wide * raster_tiles_high - 1
Pixels == (0 .. image_size[1] - 1) \X (0 .. image_size[2] - 1)

thread_pixels == pixel_stride[1] * pixel_stride[2]
block_area == tile_area \div thread_pixels
Lanes == 0 .. block_area - 1
LanePixels == 0 .. thread_pixels - 1

\* tiling.tile_transform: the first pixel of lane tile_idx of tile tile_id
tile_transform(tile_id, tile_idx) ==
  LET lanes_wide == tile_size \div pixel_stride[1]
  IN  <<(tile_id % raster_tiles_wide) * tile_size
          + (tile_idx % lanes_wide) * pixel_stride[1],
        (tile_id \div raster_tiles_wide) * tile_size
          + (tile_idx \div lanes_wide) * pixel_stride[2]>>

\* pixel i of a lane: pixel + ivec2(i % pixel_stride[0], i / pixel_stride[0])
LanePixel(tile_id, tile_idx, i) ==
  LET pixel == tile_transform(tile_id, tile_idx)
  IN  <<pixel[1] + (i % pixel_stride[1]), pixel[2] + (i \div pixel_stride[1])>>

\* conic_pdf at the centre of pixel pos, for the conic 2 ln 2 * identity:
\* exp(-0.5 * d' * conic * d) = 2 ^ (-|d|^2), with |d|^2 a whole number when
\* uv is a pixel centre
conic_pdf(pos, uv) ==
  LET dx == 2 * pos[1] + 1 - uv[1]
      dy == 2 * pos[2] + 1 - uv[2]
  IN  Rat(1, Pow2((dx * dx + dy * dy) \div 4))

\* alpha = point_alpha * gaussian_alpha
RawAlpha(point, pos) == RMul(point.alpha, conic_pdf(pos, point.uv))

\* the alpha the forward composites: 0 below alpha_threshold, then the clamp
SkipAndClamp(alpha) ==
  RMin(IF RLt(alpha, alpha_threshold) THEN RZero ELSE alpha, clamp_max_alpha)

\* (mutant of Saturates: the test is made on the current transmittance)
SaturatesLate(T, next_T) == ~RLt(RSub(ROne, saturate_threshold), T)

\* the negation of next_T_i > 1 - saturate_threshold
Saturates(T, next_T) == ~RLt(RSub(ROne, saturate_threshold), next_T)

\* accum_feature += tile_feature * alpha * T_i
Blend(accum, feature, alpha, T, next_T) ==
  RAdd(accum, RMul(RMul(feature, alpha), T))

start_offset(t) == tile_ranges[t][1]
end_offset(t) == tile_ranges[t][2]
tile_point_count(t) == end_offset(t) - start_offset(t)
num_point_groups(t) == (tile_point_count(t) + (block_area - 1)) \div block_area

\* (mutant of FwdLoadIndex: the group offset does not advance)
FwdLoadIndexFirstGroup(t, point_group_id, tile_idx) ==
  start_offset(t) + tile_idx

\* load_index = group_start_offset + tile_idx
FwdLoadIndex(t, point_group_id, tile_idx) ==
  start_offset(t) + point_group_id * block_area + tile_idx

\* (mutant of LastPointIdx: the index of the Gaussian itself)
LastPointIdxInclusive(group_start_offset, in_group_idx) ==
  group_start_offset + in_group_idx

\* last_point_idx = group_start_offset + in_group_idx + 1
LastPointIdx(group_start_offset, in_group_idx) ==
  group_start_offset + in_group_idx + 1

\* the inner loop for one pixel over a stack of `left` Gaussians of the same
\* effective alpha, with 1 - saturate_threshold = floor: last_point_idx - start
\* when the loop ends
RECURSIVE StackLastValid(_, _, _, _, _)
StackLastValid(T, applied, left, alpha, floor) ==
  IF left = 0 THEN applied
  ELSE LET next_T == RMul(T, RSub(ROne, alpha))
       IN  IF RLt(floor, next_T)
           THEN StackLastValid(next_T, applied + 1, left - 1, alpha, floor)
           ELSE applied

\* a scratch slot nothing was loaded into
NoSlot == [idx |-> -1, point |-> -1]

\* the body of the loop over the lane's pixels, for pixel i and the Gaussian
\* in scratch slot `slot`; `upto` is group_start_offset + in_group_idx + 1.
\* The log is an observer: what was evaluated for the pixel, in order.
RenderPixel(lane, t, tile_idx, i, slot, upto) ==
  LET point == gaussians[slot.point]
      pos == LanePixel(t, tile_idx, i)
      alpha == SkipAndClamp(RawAlpha(point, pos))
      T == lane.T_i[i]
      next_T == RMul(T, RSub(ROne, alpha))
      applied == ~Saturates(T, next_T)
      entry == [idx |-> slot.idx, alpha |-> alpha, applied |-> applied,
                feature |-> point.feature,
                T |-> IF applied THEN next_T ELSE T]
  IN  IF applied
      THEN [lane EXCEPT !.pixel_saturated = FALSE,
                        !.last_point_idx = upto,
                        !.accum_feature[i] = Blend(@, point.feature, alpha, T, next_T),
                        !.T_i[i] = next_T,
                        !.log[i] = Append(@, entry)]
      ELSE [lane EXCEPT !.log[i] = Append(@, entry)]

RECURSIVE RenderPixels(_, _, _, _, _, _)
RenderPixels(lane, t, tile_idx, i, slot, upto) ==
  IF i >= thread_pixels THEN lane
  ELSE RenderPixels(RenderPixel(lane, t, tile_idx, i, slot, upto),
                    t, tile_idx, i + 1, slot, upto)

\* the loop over in_group_idx of one lane, from in_group_idx on
RECURSIVE RenderGroup(_, _, _, _, _, _)
RenderGroup(lane, t, tile_idx, in_group_idx, max_point_group_offset, scratch) ==
  IF in_group_idx >= max_point_group_offset \/ lane.pixel_saturated THEN lane
  ELSE RenderGroup(
         RenderPixels([lane EXCEPT !.pixel_saturated = TRUE], t, tile_idx, 0,
                      scratch[in_group_idx],
                      LastPointIdx(start_offset(t) + lane.group * block_area,
                                   in_group_idx)),
         t, tile_idx, in_group_idx + 1, max_point_group_offset, scratch)

\* (mutant of FwdLaneInit: last_point_idx starts one past start_offset)
FwdLaneInitPastStart(t) ==
  [pc |-> IF num_point_groups(t) > 0 THEN "load" ELSE "write",
   group |-> 0,
   T_i |-> [i \in LanePixels |-> ROne],
   accum_feature |-> [i \in LanePixels |-> RZero],
   pixel_saturated |-> FALSE,
   last_point_idx |-> start_offset(t) + 1,
   log |-> [i \in LanePixels |-> <<>>]]

FwdLaneInit(t) ==
  [pc |-> IF num_point_groups(t) > 0 THEN "load" ELSE "write",
   group |-> 0,
   T_i |-> [i \in LanePixels |-> ROne],
   accum_feature |-> [i \in LanePixels |-> RZero],
   pixel_saturated |-> FALSE,
   last_point_idx |-> start_offset(t),
   log |-> [i \in LanePixels |-> <<>>]]

FwdAt(t, pc) == \A l \in Lanes : fwd[t][l].pc = pc

\* the host dispatches _forward_kernel: every lane runs up to its group loop
FwdLaunch ==
  /\ phase = "mapped"
  /\ phase' = "forward"
  /\ fwd' = [t \in RasterTiles |-> [l \in Lanes |-> FwdLaneInit(t)]]
  /\ fwd_scratch' = [t \in RasterTiles |-> [l \in Lanes |-> NoSlot]]
  /\ UNCHANGED <<input_vars, map_vars, bwd_vars,
                 image_feature, image_alpha, image_last_valid>>

\* between the two barriers: each lane loads one point into shared memory
FwdLoad(t) ==
  /\ phase = "forward"
  /\ FwdAt(t, "load")
  /\ fwd_scratch' =
       [fwd_scratch EXCEPT ![t] =
          [l \in Lanes |->
             LET load_index == FwdLoadIndex(t, fwd[t][l].group, l)
             IN  IF load_index < end_offset(t)
                 THEN [idx |-> load_index, point |-> overlap_to_point[load_index]]
                 ELSE fwd_scratch[t][l]]]
  /\ fwd' = [fwd EXCEPT ![t] = [l \in Lanes |-> [fwd[t][l] EXCEPT !.pc = "render"]]]
  /\ UNCHANGED <<input_vars, phase, map_vars, bwd_vars,
                 image_feature, image_alpha, image_last_valid>>

\* after the second barrier: each lane renders the points of the group
FwdRender(t) ==
  /\ phase = "forward"
  /\ FwdAt(t, "render")
  /\ fwd' =
       [fwd EXCEPT ![t] =
          [l \in Lanes |->
             LET lane == fwd[t][l]
                 max_point_group_offset ==
                   Min(block_area, tile_point_count(t) - lane.group * block_area)
                 done == RenderGroup(lane, t, l, 0, max_point_group_offset,
                                     fwd_scratch[t])
             IN  [done EXCEPT !.group = lane.group + 1,
                              !.pc = IF lane.group + 1 < num_point_groups(t)
                                     THEN "load" ELSE "write"]]]
  /\ UNCHANGED <<input_vars, phase, map_vars, bwd_vars, fwd_scratch,
                 image_feature, image_alpha, image_last_valid>>

\* the pixels a block writes, and the lane and lane pixel writing each
BlockPixels(t) ==
  {pos \in Pixels : \E l \in Lanes, i \in LanePixels : LanePixel(t, l, i) = pos}
WriterOf(t, pos) ==
  CHOOSE li \in Lanes \X LanePixels : LanePixel(t, li[1], li[2]) = pos

\* after the group loop: each lane writes its pixels
FwdWrite(t) ==
  /\ phase = "forward"
  /\ FwdAt(t, "write")
  /\ LET out(pos) == fwd[t][WriterOf(t, pos)[1]]
         written == BlockPixels(t)
     IN  /\ image_feature' =
              [pos \in (DOMAIN image_feature) \cup written |->
                 IF pos \in written
                 THEN out(pos).accum_feature[WriterOf(t, pos)[2]]
                 ELSE image_feature[pos]]
         /\ image_alpha' =
              [pos \in (DOMAIN image_alpha) \cup written |->
                 IF pos \in written
                 THEN RSub(ROne, out(pos).T_i[WriterOf(t, pos)[2]])
                 ELSE image_alpha[pos]]
         /\ image_last_valid' =
              [pos \in (DOMAIN image_last_valid) \cup written |->
                 IF pos \in written
                 THEN out(pos).last_point_idx
                 ELSE image_last_valid[pos]]
  /\ fwd' = [fwd EXCEPT ![t] = [l \in Lanes |-> [fwd[t][l] EXCEPT !.pc = "done"]]]
  /\ UNCHANGED <<input_vars, phase, map_vars, bwd_vars, fwd_scratch>>

ForwardDone == phase = "forward" /\ \A t \in RasterTiles : FwdAt(t, "done")

(***************************************************************************)
(* Backward rasterizer.  grad_points keeps the component of the packed     *)
(* gradient that belongs to the point's alpha (alpha_grad * gaussian_alpha *)
(* in Gaussian2D.to_vec); the uv and conic components are the same         *)
(* alpha_grad scaled by point_alpha * dp_dmean and point_alpha * dp_dconic.*)
(***************************************************************************)
BwdLanes == 0 .. tile_area - 1

\* morton_tile_inv for a 2x2 tile: de-interleave the bits of i
morton_tile_inv(i) == <<i % 2, (i \div 2) % 2>>

\* pixel = ivec2(tile_u, tile_v) * tile_size + ivec2(u, v)
BwdPixel(t, i) ==
  LET uv == morton_tile_inv(i)
  IN  <<(t % raster_tiles_wide) * tile_size + uv[1],
        (t \div raster_tiles_wide) * tile_size + uv[2]>>

\* thread_id = u + v * tile_size
thread_id(i) == morton_tile_inv(i)[1] + morton_tile_inv(i)[2] * tile_size

\* block_reduce_i32(last_point_idx, ti.max, ti.atomic_max, 0)
RECURSIVE BlockMax(_, _)
BlockMax(lanes, n) ==
  IF n = 0 THEN 0 ELSE Max(lanes[n - 1].last_point_idx, BlockMax(lanes, n - 1))

\* (mutant of bwd_point_count: the loop stops one record short of start)
bwd_point_count_short(t, lane) == lane.end_offset - start_offset(t) - 1

bwd_point_count(t, lane) == lane.end_offset - start_offset(t)
bwd_num_point_groups(t, lane) ==
  (bwd_point_count(t, lane) + (tile_area - 1)) \div tile_area

\* load_index = block_end_idx - thread_id - 1
BwdLoadIndex(lane, i) ==
  (lane.end_offset - lane.group * tile_area) - thread_id(i) - 1
\* block_start_idx = ti.max(block_end_idx - tile_area, 0)
BwdBlockStart(lane) ==
  Max((lane.end_offset - lane.group * tile_area) - tile_area, 0)

NoBwdSlot == [idx |-> -1, point |-> -1, grad_point |-> RZero,
              grad_feature |-> RZero]
NoGrad == [grad_point |-> RZero, grad_feature |-> RZero]

\* (mutant of HasGrad: the bound by image_last_valid is dropped)
HasGradUnbounded(alpha, point_index, last_point_idx) ==
  ~RLt(alpha, alpha_threshold)

\* (mutant of HasGrad: the test against alpha_threshold is dropped)
HasGradNoThreshold(alpha, point_index, last_point_idx) ==
  point_index <= last_point_idx

\* has_grad = (alpha >= alpha_threshold) and (point_index <= last_point_idx)
HasGrad(alpha, point_index, last_point_idx) ==
  ~RLt(alpha, alpha_threshold) /\ point_index <= last_point_idx

\* (mutant of AlphaGrad: the remainder w_i is not divided by 1 - alpha)
AlphaGradNoDivide(feature, T, w, alpha, grad_pixel) ==
  RMul(RSub(RMul(feature, T), w), grad_pixel)

\* (feature * T_i - w_i / (1 - alpha)) * grad_pixel_feature, summed over the
\* single feature dimension
AlphaGrad(feature, T, w, alpha, grad_pixel) ==
  RMul(RSub(RMul(feature, T), RDiv(w, RSub(ROne, alpha))), grad_pixel)

\* (mutant of UndoT: the transmittance is multiplied once more)
UndoTMultiply(T, alpha) == RMul(T, RSub(ROne, alpha))

\* T_i = T_i / (1. - alpha)
UndoT(T, alpha) == RDiv(T, RSub(ROne, alpha))

\* the body of the loop over in_group_idx for one lane.  log and seen are
\* observers: the records the lane took a gradient for, and the records the
\* loop reached, in order.
BwdPoint(lane, t, i, in_group_idx, slot) ==
  LET point_index == lane.end_offset - (lane.group * tile_area + in_group_idx)
      point == gaussians[slot.point]
      gaussian_alpha == conic_pdf(BwdPixel(t, i), point.uv)
      raw == RMul(point.alpha, gaussian_alpha)
  IN  IF HasGrad(raw, point_index, lane.last_point_idx)
      THEN LET alpha == RMin(raw, clamp_max_alpha)
               T == UndoT(lane.T_i, alpha)
               alpha_grad == AlphaGrad(point.feature, T, lane.w_i, alpha,
                                       lane.grad_pixel_feature)
               grad_feature == RMul(RMul(alpha, T), lane.grad_pixel_feature)
           IN  [lane EXCEPT
                  !.T_i = T,
                  !.w_i = RAdd(@, RMul(RMul(point.feature, alpha), T)),
                  !.grad[in_group_idx] =
                     [grad_point |-> RMul(alpha_grad, gaussian_alpha),
                      grad_feature |-> grad_feature],
                  !.seen = Append(@, slot.idx),
                  !.log = Append(@, [idx |-> slot.idx, raw |-> raw,
                                     alpha |-> alpha, T |-> T,
                                     alpha_grad |-> alpha_grad,
                                     grad_point |-> RMul(alpha_grad, gaussian_alpha),
                                     grad_feature |-> grad_feature])]
      ELSE [lane EXCEPT !.grad[in_group_idx] = NoGrad,
                        !.seen = Append(@, slot.idx)]

RECURSIVE BwdGroup(_, _, _, _, _, _)
BwdGroup(lane, t, i, in_group_idx, point_group_size, scratch) ==
  IF in_group_idx >= point_group_size THEN lane
  ELSE BwdGroup(BwdPoint(lane, t, i, in_group_idx, scratch[in_group_idx]),
                t, i, in_group_idx + 1, point_group_size, scratch)

\* warp_add_vector over the block: the sum of what the lanes hand in
RECURSIVE SumGradPoint(_, _, _)
SumGradPoint(lanes, slot, n) ==
  IF n = 0 THEN RZero
  ELSE RAdd(lanes[n - 1].grad[slot].grad_point, SumGradPoint(lanes, slot, n - 1))
RECURSIVE SumGradFeature(_, _, _)
SumGradFeature(lanes, slot, n) ==
  IF n = 0 THEN RZero
  ELSE RAdd(lanes[n - 1].grad[slot].grad_feature,
            SumGradFeature(lanes, slot, n - 1))

BwdAt(t, pc) == \A i \in BwdLanes : bwd[t][i].pc = pc

\* the host dispatches _backward_kernel on the outputs of the forward; the
\* caller hands in zero-filled gradient buffers
BwdLaunch ==
  /\ ForwardDone
  /\ pixel_stride = <<1, 1>>
  /\ phase' = "backward"
  /\ bwd' = [t \in RasterTiles |-> [i \in BwdLanes |->
               [pc |-> "reduce", group |-> 0, last_point_idx |-> 0,
                T_i |-> ROne, w_i |-> RZero, grad_pixel_feature |-> RZero,
                end_offset |-> 0,
                grad |-> [s \in BwdLanes |-> NoGrad],
                seen |-> <<>>,
                log |-> <<>>]]]
  /\ bwd_scratch' = [t \in RasterTiles |-> [s \in BwdLanes |-> NoBwdSlot]]
  /\ grad_points' = [g \in Points |-> RZero]
  /\ grad_features' = [g \in Points |-> RZero]
  /\ UNCHANGED <<input_vars, map_vars, fwd_vars>>

\* each lane reads its pixel's saved state; the block reduces end_offset
BwdReduce(t) ==
  /\ phase = "backward"
  /\ BwdAt(t, "reduce")
  /\ \E read \in {[i \in BwdLanes |->
                    LET pixel == BwdPixel(t, i)
                    IN  IF pixel \in Pixels
                        THEN [bwd[t][i] EXCEPT
                                !.last_point_idx = image_last_valid[pixel],
                                !.T_i = RSub(ROne, image_alpha[pixel]),
                                !.grad_pixel_feature = grad_image_feature[pixel]]
                        ELSE bwd[t][i]]} :
       bwd' = [bwd EXCEPT ![t] =
                 [i \in BwdLanes |->
                    LET lane == [read[i] EXCEPT !.end_offset = BlockMax(read, tile_area)]
                    IN  [lane EXCEPT !.pc = IF bwd_num_point_groups(t, lane) > 0
                                            THEN "load" ELSE "done"]]]
  /\ UNCHANGED <<input_vars, phase, map_vars, fwd_vars, bwd_scratch,
                 grad_points, grad_features>>

\* between the barriers: load points, zero the scratch gradients
BwdLoad(t) ==
  /\ phase = "backward"
  /\ BwdAt(t, "load")
  /\ bwd_scratch' =
       [bwd_scratch EXCEPT ![t] =
          [s \in BwdLanes |->
             LET i == CHOOSE j \in BwdLanes : thread_id(j) = s
                 load_index == BwdLoadIndex(bwd[t][i], i)
             IN  IF load_index >= BwdBlockStart(bwd[t][i])
                 THEN [idx |-> load_index, point |-> overlap_to_point[load_index],
                       grad_point |-> RZero, grad_feature |-> RZero]
                 ELSE bwd_scratch[t][s]]]
  /\ bwd' = [bwd EXCEPT ![t] = [i \in BwdLanes |-> [bwd[t][i] EXCEPT !.pc = "compute"]]]
  /\ UNCHANGED <<input_vars, phase, map_vars, fwd_vars, grad_points, grad_features>>

\* the loop over the group: every lane's gradients, summed into the scratch;
\* a lane hands in nothing for the slots the loop does not reach
BwdCompute(t) ==
  /\ phase = "backward"
  /\ BwdAt(t, "compute")
  /\ bwd' =
       [bwd EXCEPT ![t] =
          [i \in BwdLanes |->
             LET lane == bwd[t][i]
                 point_group_size ==
                   Min(tile_area, bwd_point_count(t, lane) - lane.group * tile_area)
             IN  [BwdGroup([lane EXCEPT !.grad = [s \in BwdLanes |-> NoGrad]],
                           t, i, 0, point_group_size, bwd_scratch[t])
                    EXCEPT !.pc = "flush"]]]
  /\ bwd_scratch' =
       [bwd_scratch EXCEPT ![t] =
          [s \in BwdLanes |->
             LET point_group_size ==
                   Min(tile_area, bwd_point_count(t, bwd[t][0])
                                    - bwd[t][0].group * tile_area)
             IN  IF s < point_group_size
                 THEN [bwd_scratch[t][s] EXCEPT
                         !.grad_point = RAdd(@, SumGradPoint(bwd'[t], s, tile_area)),
                         !.grad_feature = RAdd(@, SumGradFeature(bwd'[t], s, tile_area))]
                 ELSE bwd_scratch[t][s]]]
  /\ UNCHANGED <<input_vars, phase, map_vars, fwd_vars, grad_points, grad_features>>

\* (mutant of BwdLoadedSlots: only the first lane of the block adds its slot)
BwdLoadedSlotsFirstLane(t) ==
  {thread_id(i) : i \in {j \in BwdLanes :
                           /\ j = 0
                           /\ BwdLoadIndex(bwd[t][j], j) >= BwdBlockStart(bwd[t][j])}}

\* the scratch slots of block t whose lane passed the load test of this group
BwdLoadedSlots(t) ==
  {thread_id(i) : i \in {j \in BwdLanes :
                           BwdLoadIndex(bwd[t][j], j) >= BwdBlockStart(bwd[t][j])}}

RECURSIVE SumSlots(_, _, _, _)
\* sum over the slots in `slots` that hold point g of the field `field`
SumSlots(scratch, slots, g, field) ==
  IF slots = {} THEN RZero
  ELSE LET s == CHOOSE x \in slots : TRUE
       IN  RAdd(IF scratch[s].point = g THEN scratch[s][field] ELSE RZero,
                SumSlots(scratch, slots \ {s}, g, field))

\* after the third barrier: atomic_add_vector of every loaded slot
BwdFlush(t) ==
  /\ phase = "backward"
  /\ BwdAt(t, "flush")
  /\ grad_points' =
       [g \in Points |->
          RAdd(grad_points[g],
               SumSlots(bwd_scratch[t], BwdLoadedSlots(t), g, "grad_point"))]
  /\ grad_features' =
       [g \in Points |->
          RAdd(grad_features[g],
               SumSlots(bwd_scratch[t], BwdLoadedSlots(t), g, "grad_feature"))]
  /\ bwd' = [bwd EXCEPT ![t] =
               [i \in BwdLanes |->
                  LET lane == bwd[t][i]
                  IN  [lane EXCEPT !.group = lane.group + 1,
                                   !.pc = IF lane.group + 1 < bwd_num_point_groups(t, lane)
                                          THEN "load" ELSE "done"]]]
  /\ UNCHANGED <<input_vars, phase, map_vars, fwd_vars, bwd_scratch>>

BackwardDone == phase = "backward" /\ \A t \in RasterTiles : BwdAt(t, "done")

(***************************************************************************)
(* Inputs.                                                                 *)
(***************************************************************************)
Gaussian(uv, radius, alpha, feature, depth) ==
  [uv |-> uv, radius |-> radius, alpha |-> alpha, feature |-> feature,
   depth |-> depth]

\* Inputs of the mapper alone: centres left of, inside, on the tile corner of
\* and right of a 4x4 image (half-pixel units), radii 0.5 (raised to 1) and 3.
MapUVx == {-6, 1, 4, 11}
MapUVy == {-6, 4, 11}
MapRadii == {1, 6}
MapDepths == {0, 1}
MapGaussianSet ==
  {Gaussian(<<x, y>>, r, ROne, ROne, d) :
     x \in MapUVx, y \in MapUVy, r \in MapRadii, d \in MapDepths}

InitRest ==
  /\ phase = "input"
  /\ tile_overlap_ranges = Empty
  /\ cum_overlap_counts = Empty
  /\ overlap_key = Empty
  /\ overlap_to_point = Empty
  /\ tile_ranges = Empty
  /\ fwd = Empty
  /\ fwd_scratch = Empty
  /\ image_feature = Empty
  /\ image_alpha = Empty
  /\ image_last_valid = Empty
  /\ bwd = Empty
  /\ bwd_scratch = Empty
  /\ grad_points = Empty
  /\ grad_features = Empty

InitMap ==
  /\ image_size = <<4, 4>>
  /\ pixel_stride = <<1, 1>>
  /\ grad_image_feature = Empty
  /\ \E n \in 0 .. MapGaussians :
       gaussians \in [0 .. n - 1 -> MapGaussianSet]
  /\ InitRest

NextMap == MapToTiles
SpecMap == InitMap /\ [][NextMap]_vars

\* Inputs of the mapper on images whose sides need not be multiples of
\* tile_size
SizeGaussians == 1
ImageSides == {3, 4, 5}
InitSize ==
  /\ image_size \in ImageSides \X ImageSides
  /\ pixel_stride = <<1, 1>>
  /\ grad_image_feature = Empty
  /\ \E n \in 0 .. SizeGaussians :
       gaussians \in [0 .. n - 1 -> MapGaussianSet]
  /\ InitRest

SpecSize == InitSize /\ [][NextMap]_vars

\* Inputs of the whole pipeline: a 4x2 image (two tiles), Gaussians centred
\* on pixel centres (half-pixel units) with radius 1, all depths distinct.
\*   KindA: centre of pixel (1,0), opacity 1,   feature 1, overlaps both tiles
\*   KindB: centre of pixel (0,1), opacity 1/2, feature 3, overlaps tile 0 only
KindA == [uv |-> <<3, 1>>, radius |-> 2, alpha |-> ROne, feature |-> ROne]
KindB == [uv |-> <<1, 3>>, radius |-> 2, alpha |-> <<1, 2>>, feature |-> <<3, 1>>]
RasterKinds == {KindA, KindB}
\*   KindOff: centre of pixel (6,0), right of the image, overlaps no tile
KindOff == [uv |-> <<13, 1>>, radius |-> 2, alpha |-> ROne, feature |-> ROne]
PixelStrides == {<<1, 1>>, <<2, 1>>}

Init ==
  /\ image_size = <<4, 2>>
  /\ pixel_stride \in PixelStrides
  /\ grad_image_feature =
       [pos \in (0 .. 3) \X (0 .. 1) |-> Rat(pos[1] + 1 - 2 * pos[2], 1)]
  /\ \E n \in 0 .. MaxGaussians :
       \E kinds \in [0 .. n - 1 -> RasterKinds] \cup {[g \in 0 .. n - 1 |-> KindOff]} :
         \E nearest_first \in BOOLEAN :
           gaussians =
             [g \in 0 .. n - 1 |->
                Gaussian(kinds[g].uv, kinds[g].radius, kinds[g].alpha,
                         kinds[g].feature,
                         IF nearest_first THEN g ELSE n - 1 - g)]
  /\ InitRest

Next ==
  \/ MapToTiles
  \/ FwdLaunch
  \/ \E t \in RasterTiles : FwdLoad(t)
  \/ \E t \in RasterTiles : FwdRender(t)
  \/ \E t \in RasterTiles : FwdWrite(t)
  \/ BwdLaunch
  \/ \E t \in RasterTiles : BwdReduce(t)
  \/ \E t \in RasterTiles : BwdLoad(t)
  \/ \E t \in RasterTiles : BwdCompute(t)
  \/ \E t \in RasterTiles : BwdFlush(t)
Spec == Init /\ [][Next]_vars

(***************************************************************************)
(* Properties of the tile mapper.                                          *)
(***************************************************************************)
K == ArrLen(overlap_to_point)
Mapped == phase # "input"
RangeOf(t) == tile_ranges[t][1] .. tile_ranges[t][2] - 1
TileX(t) == t % tiles_wide
TileY(t) == t \div tiles_wide
\* tile t lies in the clamped tile box Pass A computed for Gaussian g
InBox(g, t) ==
  LET r == tile_overlap_ranges[g]
  IN  /\ r[1] <= TileX(t) /\ TileX(t) < r[3]
      /\ r[2] <= TileY(t) /\ TileY(t) < r[4]
RECURSIVE SumBoxes(_)
SumBoxes(n) ==
  IF n = 0 THEN 0 ELSE SumBoxes(n - 1) + OverlapCount(tile_overlap_ranges[n - 1])

\* C1: after map_to_tiles every Gaussian has exactly one record in the range of
\* every tile of its clamped tile box; so K is the sum of the box areas, and a
\* single Gaussian whose box is the 2x2 tile grid gives K = 4 and four ranges
\* of length 1.
C1_OneRecordPerTile ==
  Mapped =>
    /\ \A g \in Points : \A t \in Tiles :
         InBox(g, t) =>
           Cardinality({k \in RangeOf(t) \cap DOMAIN overlap_to_point :
                          overlap_to_point[k] = g}) = 1
    /\ K = SumBoxes(NumPoints)
    /\ (NumPoints = 1 /\ tile_overlap_ranges[0] = <<0, 0, 2, 2>>) =>
         /\ K = 4
         /\ \A t \in Tiles : tile_ranges[t][2] - tile_ranges[t][1] = 1

\* witness of C1: one Gaussian on the corner of the four tiles, and a mapping
\* of two Gaussians that share a tile
C1_Witness ==
  /\ Mapped
  /\ \/ NumPoints = 1 /\ tile_overlap_ranges[0] = <<0, 0, 2, 2>> /\ K = 4
        /\ num_tiles = 4

\* C2: within every tile's range the depths are non-decreasing, and the sorted
\* records of one tile id are contiguous.
C2_DepthOrdered ==
  Mapped =>
    /\ \A t \in Tiles : \A k1, k2 \in RangeOf(t) :
         k1 < k2 =>
           gaussians[overlap_to_point[k1]].depth
             <= gaussians[overlap_to_point[k2]].depth
    /\ \A i, j, k \in DOMAIN overlap_key :
         (i < j /\ j < k /\ overlap_key[i].tile = overlap_key[k].tile) =>
           overlap_key[j].tile = overlap_key[i].tile

\* witness of C2: a tile holding two Gaussians that the sort had to swap, the
\* nearer one emitted second
C2_Witness ==
  /\ Mapped
  /\ \E t \in Tiles : \E k \in RangeOf(t) :
       /\ k + 1 \in RangeOf(t)
       /\ overlap_to_point[k] > overlap_to_point[k + 1]
       /\ gaussians[overlap_to_point[k]].depth
            < gaussians[overlap_to_point[k + 1]].depth

\* indices of the sorted records whose key carries tile id t
KeysOfTile(t) == {k \in DOMAIN overlap_key : overlap_key[k].tile = t}

\* C3: with K > 0 the range of tile t is exactly the index span of the sorted
\* records of tile t, (0,0) for a tile without records; the non-empty ranges
\* are pairwise disjoint and cover 0 .. K-1.
C3_RangesAreSpans ==
  (Mapped /\ K > 0) =>
    /\ \A t \in Tiles :
         IF KeysOfTile(t) = {} THEN tile_ranges[t] = <<0, 0>>
         ELSE /\ RangeOf(t) = KeysOfTile(t)
              /\ tile_ranges[t][1] < tile_ranges[t][2]
    /\ \A t1, t2 \in Tiles : t1 # t2 => RangeOf(t1) \cap RangeOf(t2) = {}
    /\ UNION {RangeOf(t) : t \in Tiles} = 0 .. K - 1
    /\ \E t \in Tiles : tile_ranges[t][1] = 0 /\ tile_ranges[t][2] > 0
    /\ \E t \in Tiles : tile_ranges[t][2] = K

\* witness of C3: records in the first and the last tile, none in another
C3_Witness ==
  /\ Mapped /\ K > 0
  /\ \E t1, t2, t3 \in Tiles :
       /\ t1 < t2 /\ t2 < t3
       /\ KeysOfTile(t1) # {} /\ KeysOfTile(t2) = {} /\ KeysOfTile(t3) # {}
       /\ tile_ranges[t2] = <<0, 0>>
       /\ tile_ranges[t3][1] > 0

\* the pixel bounding box [uv - r, uv + r] of g meets the image [0,W) x [0,H)
\* (half-pixel units; r is the radius after its floor of one pixel)
OnScreen(g) ==
  LET r == Max(g.radius, 2)
  IN  /\ g.uv[1] + r >= 0 /\ g.uv[1] - r < 2 * image_size[1]
      /\ g.uv[2] + r >= 0 /\ g.uv[2] - r < 2 * image_size[2]

\* C10 (as claimed): Pass A counts at least one overlap for g exactly when g's
\* pixel bounding box is on-screen; a box entirely off-screen on any side
\* counts zero.
C10_CountIffOnScreen ==
  Mapped =>
    \A g \in Points :
      (OverlapCount(tile_overlap_ranges[g]) >= 1) <=> OnScreen(gaussians[g])


(***************************************************************************)
(* Claims about the forward rasterizer.                                    *)
(***************************************************************************)
Started == phase \in {"forward", "backward"}
FloorT == RSub(ROne, saturate_threshold)

\* C4: for every pixel the running transmittance stays above
\* 1 - saturate_threshold and never increases along the compositing sequence,
\* and the alpha written for the pixel is 1 - T_final, within
\* [0, saturate_threshold].
C4_TransmittanceBounded ==
  Started =>
    \A t \in RasterTiles : \A l \in Lanes : \A i \in LanePixels :
      LET lane == fwd[t][l]
          log == lane.log[i]
          pos == LanePixel(t, l, i)
      IN  /\ RLt(FloorT, lane.T_i[i])
          /\ \A j \in 1 .. Len(log) :
               /\ RLe(log[j].T, IF j = 1 THEN ROne ELSE log[j - 1].T)
               /\ RLt(FloorT, log[j].T)
          /\ pos \in DOMAIN image_alpha =>
               /\ image_alpha[pos] = RSub(ROne, lane.T_i[i])
               /\ RLe(RZero, image_alpha[pos])
               /\ RLe(image_alpha[pos], saturate_threshold)

\* a written pixel that hit saturation: a Gaussian was refused and the alpha
\* of the pixel is what the applied ones left
C4_Witness ==
  /\ Started
  /\ \E t \in RasterTiles : \E l \in Lanes : \E i \in LanePixels :
       /\ LanePixel(t, l, i) \in DOMAIN image_alpha
       /\ image_alpha[LanePixel(t, l, i)] = <<3, 4>>
       /\ \E j \in 1 .. Len(fwd[t][l].log[i]) : ~fwd[t][l].log[i][j].applied

\* the effective alpha of sorted record k at pixel pos, moved by da when k is
\* the record pk
PertAlpha(pos, k, pk, da) ==
  RAdd(SkipAndClamp(RawAlpha(gaussians[overlap_to_point[k]], pos)),
       IF k = pk THEN da ELSE RZero)

\* the product of (1 - a_j) over the records of tile t before k
RECURSIVE PertT(_, _, _, _, _)
PertT(t, pos, k, pk, da) ==
  IF k <= start_offset(t) THEN ROne
  ELSE RMul(PertT(t, pos, k - 1, pk, da),
            RSub(ROne, PertAlpha(pos, k - 1, pk, da)))

\* the sum of c_i * a_i * prod_{j<i} (1 - a_j) over the records of tile t
\* before k, the feature of record pk moved by dc
RECURSIVE PertFeature(_, _, _, _, _, _)
PertFeature(t, pos, k, pk, da, dc) ==
  IF k <= start_offset(t) THEN RZero
  ELSE RAdd(PertFeature(t, pos, k - 1, pk, da, dc),
            RMul(RMul(RAdd(gaussians[overlap_to_point[k - 1]].feature,
                           IF k - 1 = pk THEN dc ELSE RZero),
                      PertAlpha(pos, k - 1, pk, da)),
                 PertT(t, pos, k - 1, pk, da)))

RefT(t, pos, k) == PertT(t, pos, k, -1, RZero)
RefFeature(t, pos, k) == PertFeature(t, pos, k, -1, RZero, RZero)

\* the first record whose application would take the product to
\* 1 - saturate_threshold or below; end_offset when there is none
FirstSaturating(t, pos) ==
  LET sat == {k \in start_offset(t) .. end_offset(t) - 1 :
                ~RLt(FloorT, RefT(t, pos, k + 1))}
  IN  IF sat = {} THEN end_offset(t)
      ELSE CHOOSE k \in sat : \A k2 \in sat : k <= k2

\* C5: every written pixel holds the front-to-back compositing reference over
\* the tile's records in ascending index up to, and excluding, the first
\* saturating record.
C5_MatchesReference ==
  Started =>
    \A t \in RasterTiles : \A pos \in BlockPixels(t) :
      pos \in DOMAIN image_feature =>
        /\ image_feature[pos] = RefFeature(t, pos, FirstSaturating(t, pos))
        /\ image_alpha[pos] = RSub(ROne, RefT(t, pos, FirstSaturating(t, pos)))

\* the same statement for lanes of one pixel
C5_MatchesReferenceOnePixelLanes ==
  pixel_stride = <<1, 1>> => C5_MatchesReference

\* the records a lane is handed when block t runs alone, group by group
SoloScratch(t, point_group_id) ==
  [l \in Lanes |->
     LET k == start_offset(t) + point_group_id * block_area + l
     IN  IF k < end_offset(t) THEN [idx |-> k, point |-> overlap_to_point[k]]
         ELSE NoSlot]

\* lane l of block t run in isolation over all its groups
RECURSIVE SoloLane(_, _, _)
SoloLane(lane, t, l) ==
  IF lane.group >= num_point_groups(t) THEN lane
  ELSE SoloLane(
         [RenderGroup(lane, t, l, 0,
                      Min(block_area, tile_point_count(t) - lane.group * block_area),
                      SoloScratch(t, lane.group))
            EXCEPT !.group = lane.group + 1],
         t, l)

\* C6: for every pixel the records are evaluated in strictly ascending
\* sorted-overlap index within [start, end), across all groups, and what a
\* tile's lanes end with is what the tile computes when run alone, however
\* the other tiles were interleaved.
C6_AscendingAndIndependent ==
  Started =>
    \A t \in RasterTiles : \A l \in Lanes :
      /\ \A i \in LanePixels :
           LET log == fwd[t][l].log[i]
           IN  \A j \in 1 .. Len(log) :
                 /\ start_offset(t) <= log[j].idx
                 /\ log[j].idx < end_offset(t)
                 /\ j > 1 => log[j - 1].idx < log[j].idx
      /\ fwd[t][l].pc \in {"write", "done"} =>
           [fwd[t][l] EXCEPT !.pc = "done"]
             = [SoloLane(FwdLaneInit(t), t, l) EXCEPT !.pc = "done"]

\* a pixel evaluated over more than one group, finished while another tile
\* is still between its barriers
C6_Witness ==
  /\ phase = "forward"
  /\ \E t \in RasterTiles : \E l \in Lanes : \E i \in LanePixels :
       /\ fwd[t][l].pc = "done"
       /\ Len(fwd[t][l].log[i]) > block_area
       /\ \E t2 \in RasterTiles : t2 # t /\ FwdAt(t2, "render")

\* C7: once a Gaussian is refused for a pixel because its prospective T_next
\* is at or below 1 - saturate_threshold, no later Gaussian of the tile changes
\* the pixel's feature or transmittance, whatever the pixel_stride.
C7_SaturationIsFinal ==
  Started =>
    \A t \in RasterTiles : \A l \in Lanes : \A i \in LanePixels :
      LET log == fwd[t][l].log[i]
      IN  \A j \in 1 .. Len(log) : \A j2 \in j + 1 .. Len(log) :
            ~log[j].applied =>
              /\ log[j2].T = log[j].T
              /\ log[j2].applied => log[j2].alpha = RZero

\* the same statement for lanes of one pixel
C7_SaturationIsFinalOnePixelLanes ==
  pixel_stride = <<1, 1>> => C7_SaturationIsFinal

(***************************************************************************)
(* Claims about the backward rasterizer.                                   *)
(***************************************************************************)
RawAt(k, pos) == RawAlpha(gaussians[overlap_to_point[k]], pos)

\* C8: a pixel hands a gradient to a sorted record only when the record is
\* below the pixel's image_last_valid and its raw alpha is at least
\* alpha_threshold; a pixel nothing was applied to hands in no gradient.
C8_GradOnlyWithinBound ==
  phase = "backward" =>
    \A t \in RasterTiles : \A i \in BwdLanes :
      LET lane == bwd[t][i]
          pos == BwdPixel(t, i)
      IN  /\ \A j \in 1 .. Len(lane.log) :
               /\ lane.log[j].idx < image_last_valid[pos]
               /\ ~RLt(RawAt(lane.log[j].idx, pos), alpha_threshold)
          /\ lane.pc = "flush" =>
               \A s \in BwdLanes :
                 lane.grad[s] # NoGrad =>
                   /\ bwd_scratch[t][s].idx < image_last_valid[pos]
                   /\ ~RLt(RawAt(bwd_scratch[t][s].idx, pos), alpha_threshold)
          /\ image_last_valid[pos] \in {0, start_offset(t)} =>
               /\ lane.log = <<>>
               /\ \A s \in BwdLanes : lane.grad[s] = NoGrad

\* a pixel that handed in gradients for the records applied to it and none
\* for a record behind its saturating Gaussian
C8_Witness ==
  /\ phase = "backward"
  /\ \E t \in RasterTiles : \E i \in BwdLanes : \E s \in BwdLanes :
       /\ bwd[t][i].pc = "flush"
       /\ Len(bwd[t][i].log) > 0
       /\ bwd_scratch[t][s].idx >= image_last_valid[BwdPixel(t, i)]
       /\ bwd_scratch[t][s].idx < end_offset(t)
       /\ ~RLt(RawAt(bwd_scratch[t][s].idx, BwdPixel(t, i)), alpha_threshold)
       /\ bwd[t][i].grad[s] = NoGrad

\* C9: with one pixel per lane, the alpha gradient and the feature gradient
\* the backward computes for a record are grad_pixel times the partial
\* derivatives of the forward's composited pixel feature by the record's
\* alpha and feature (the difference quotient of two forward sums, the sum
\* being affine in each), for every applied record at or above alpha_threshold.
C9_GradientsAreDerivatives ==
  phase = "backward" =>
    \A t \in RasterTiles : \A i \in BwdLanes :
      LET lane == bwd[t][i]
          pos == BwdPixel(t, i)
          n == image_last_valid[pos]
          grad_pixel == grad_image_feature[pos]
          composited == RefFeature(t, pos, n)
      IN  /\ image_feature[pos] = composited
          /\ \A j \in 1 .. Len(lane.log) :
               LET e == lane.log[j]
               IN  /\ e.alpha_grad =
                        RMul(grad_pixel,
                             RSub(PertFeature(t, pos, n, e.idx, ROne, RZero),
                                  composited))
                   /\ e.grad_feature =
                        RMul(grad_pixel,
                             RSub(PertFeature(t, pos, n, e.idx, RZero, ROne),
                                  composited))
          /\ lane.pc = "done" =>
               {lane.log[j].idx : j \in 1 .. Len(lane.log)}
                 = {k \in start_offset(t) .. n - 1 :
                      ~RLt(RawAt(k, pos), alpha_threshold)}

\* a finished pixel with two applied records, the nearer one's alpha gradient
\* carrying a remainder w_i that is not zero
C9_Witness ==
  /\ BackwardDone
  /\ \E t \in RasterTiles : \E i \in BwdLanes :
       /\ Len(bwd[t][i].log) >= 2
       /\ bwd[t][i].grad_pixel_feature # RZero
       /\ bwd[t][i].w_i # RZero
       /\ bwd[t][i].log[2].alpha_grad # RZero


(***************************************************************************)
(* Claims about the empty mapping, the sort key and the gradient sums.     *)
(***************************************************************************)
\* C11: when no Gaussian overlaps a tile the mapper emits no key and returns
\* an empty overlap_to_point with every tile range (0,0); the forward then
\* writes feature 0, alpha 0 and last valid 0 to every pixel, and the backward
\* adds nothing to the gradients.
C11_EmptyMapping ==
  (Mapped /\ TotalOverlap(tile_overlap_ranges) = 0) =>
    /\ overlap_key = Empty
    /\ overlap_to_point = Empty
    /\ \A t \in Tiles : tile_ranges[t] = <<0, 0>>
    /\ \A pos \in DOMAIN image_feature :
         /\ image_feature[pos] = RZero
         /\ image_alpha[pos] = RZero
         /\ image_last_valid[pos] = 0
    /\ phase = "backward" =>
         /\ \A g \in Points : grad_points[g] = RZero /\ grad_features[g] = RZero
         /\ \A t \in RasterTiles : \A i \in BwdLanes :
              /\ bwd[t][i].log = <<>>
              /\ bwd[t][i].pc \in {"reduce", "done"}
              /\ bwd_scratch[t][i] = NoBwdSlot

\* Gaussians that are all off-screen, rendered and differentiated to the end
C11_Witness ==
  /\ BackwardDone
  /\ NumPoints > 0
  /\ TotalOverlap(tile_overlap_ranges) = 0
  /\ DOMAIN image_last_valid = Pixels


\* depth bit patterns and tile ids the key is formed from: 0, the pattern of
\* 1.0f, the largest finite pattern, and patterns with the sign bit set
KeyDepths == {0, 1, 1065353216, 2139095039, -1, -2147483647}
KeyTiles == 0 .. 3

RECURSIVE SumLog(_, _, _, _)
SumLog(log, g, field, n) ==
  IF n = 0 THEN RZero
  ELSE RAdd(IF overlap_to_point[log[n].idx] = g THEN log[n][field] ELSE RZero,
            SumLog(log, g, field, n - 1))

\* the same over lanes 0 .. n-1 of block t, and over blocks 0 .. n-1
RECURSIVE SumLaneLogs(_, _, _, _)
SumLaneLogs(t, g, field, n) ==
  IF n = 0 THEN RZero
  ELSE RAdd(SumLog(bwd[t][n - 1].log, g, field, Len(bwd[t][n - 1].log)),
            SumLaneLogs(t, g, field, n - 1))
RECURSIVE SumTileLogs(_, _, _)
SumTileLogs(g, field, n) ==
  IF n = 0 THEN RZero
  ELSE RAdd(SumLaneLogs(n - 1, g, field, tile_area), SumTileLogs(g, field, n - 1))

\* the records of the group block t is working on
BwdGroupSize(t) ==
  Min(tile_area, bwd_point_count(t, bwd[t][0]) - bwd[t][0].group * tile_area)

\* what blocks 0 .. n-1 hold in scratch for Gaussian g between the end of a
\* group's loop and its atomic add
RECURSIVE SumPending(_, _, _)
SumPending(g, field, n) ==
  IF n = 0 THEN RZero
  ELSE RAdd(IF BwdAt(n - 1, "flush")
            THEN SumSlots(bwd_scratch[n - 1], 0 .. BwdGroupSize(n - 1) - 1, g, field)
            ELSE RZero,
            SumPending(g, field, n - 1))

NumRasterTiles == raster_tiles_wide * raster_tiles_high

RECURSIVE MaxLastValid(_, _)
MaxLastValid(t, n) ==
  IF n = 0 THEN 0
  ELSE Max(image_last_valid[BwdPixel(t, n - 1)], MaxLastValid(t, n - 1))

\* C14: the reverse loop of a tile is bounded by end_offset, the largest
\* image_last_valid of its pixels: every lane reaches the records
\* end_offset - 1, end_offset - 2, ..., start in that order, each once, none
\* at or above end_offset, and runs no group when end_offset <= start.
C14_ReverseLoopBounded ==
  phase = "backward" =>
    \A t \in RasterTiles : \A i \in BwdLanes :
      LET lane == bwd[t][i]
      IN  lane.pc # "reduce" =>
            /\ lane.end_offset = MaxLastValid(t, tile_area)
            /\ \A j \in 1 .. Len(lane.seen) :
                 /\ lane.seen[j] = lane.end_offset - j
                 /\ lane.seen[j] >= start_offset(t)
            /\ lane.pc = "done" =>
                 Len(lane.seen) = Max(lane.end_offset - start_offset(t), 0)
            /\ lane.end_offset <= start_offset(t) =>
                 lane.pc = "done" /\ lane.group = 0 /\ lane.seen = <<>>

\* a finished tile whose every pixel saturated before the end of the range:
\* the loop started below the end of the tile's range and reached start
C14_Witness ==
  /\ phase = "backward"
  /\ \E t \in RasterTiles :
       /\ BwdAt(t, "done")
       /\ bwd[t][0].end_offset < end_offset(t)
       /\ Len(bwd[t][0].seen) >= 2
       /\ bwd[t][0].seen[Len(bwd[t][0].seen)] = start_offset(t)
       /\ \E i \in BwdLanes :
            image_last_valid[BwdPixel(t, i)] < bwd[t][0].end_offset


Aligned == image_size[1] % tile_size = 0 /\ image_size[2] % tile_size = 0

\* C15 (as claimed): an image whose width or height is not a multiple of
\* tile_size is rejected, so the mapping is never carried out on one and the
\* mapper's tile grid is always the grid the rasterizer kernels use.
C15_MisalignedRejected ==
  Mapped => (Aligned /\ num_tiles = NumRasterTiles)


\* the stack of the example: 20 Gaussians of effective alpha 1/2
StackLen == 20

\* C16: with one pixel per lane, image_last_valid is the exclusive upper
\* bound of the records applied to the pixel: the index of the Gaussian that
\* was refused for saturation, or the end of the tile's range when none was
\* (start for an empty range); every record below it was applied and none at
\* or above it; a stack of 20 records of alpha 1/2 with saturate_threshold
\* 0.9999 leaves image_last_valid - start at most 14.
C16_LastValidIsUpperBound ==
  /\ StackLastValid(ROne, 0, StackLen, <<1, 2>>, <<1, 10000>>) <= 14
  /\ (Started /\ pixel_stride = <<1, 1>>) =>
       \A t \in RasterTiles : \A pos \in BlockPixels(t) :
         pos \in DOMAIN image_last_valid =>
           LET log == fwd[t][WriterOf(t, pos)[1]].log[WriterOf(t, pos)[2]]
               last == image_last_valid[pos]
               refused == {j \in 1 .. Len(log) : ~log[j].applied}
           IN  /\ start_offset(t) <= last
               /\ last <= end_offset(t)
               /\ \A j \in refused : log[j].idx = last
               /\ refused = {} => last = end_offset(t)
               /\ \A j \in 1 .. Len(log) : log[j].applied <=> log[j].idx < last
               /\ \A k \in start_offset(t) .. last - 1 :
                    \E j \in 1 .. Len(log) : log[j].idx = k
               /\ last = FirstSaturating(t, pos)

\* a written pixel whose third Gaussian was refused, in a tile whose range
\* goes on behind it, next to a pixel of the same tile that took every record
C16_Witness ==
  /\ Started
  /\ pixel_stride = <<1, 1>>
  /\ StackLastValid(ROne, 0, StackLen, <<1, 2>>, <<1, 10000>>) = 13
  /\ \E t \in RasterTiles : \E pos, pos2 \in BlockPixels(t) :
       /\ pos \in DOMAIN image_last_valid
       /\ start_offset(t) + 2 = image_last_valid[pos]
       /\ image_last_valid[pos] + 1 < end_offset(t)
       /\ image_alpha[pos] = <<3, 4>>
       /\ image_last_valid[pos2] = end_offset(t)


\* what the forward logged for the pixel of backward lane i of block t
FwdLogOf(t, i) ==
  LET w == WriterOf(t, BwdPixel(t, i))
  IN  fwd[t][w[1]].log[w[2]]

\* the forward's transmittance of the pixel just before sorted record k
FwdTBefore(t, i, k) ==
  LET j == k - start_offset(t) + 1
  IN  IF j = 1 THEN ROne ELSE FwdLogOf(t, i)[j - 1].T

\* C17: with one pixel per lane, the backward starts from T = 1 - image_alpha
\* and, dividing by 1 - alpha_i record by record in descending index, holds
\* the forward's transmittance just before record i when it computes record
\* i's gradient; when the range has been replayed T is 1 again.
C17_TransmittanceRoundTrip ==
  phase = "backward" =>
    \A t \in RasterTiles : \A i \in BwdLanes :
      LET lane == bwd[t][i]
          pos == BwdPixel(t, i)
      IN  lane.pc # "reduce" =>
            /\ lane.log = <<>> =>
                 (lane.pc # "done" => lane.T_i = RSub(ROne, image_alpha[pos]))
            /\ \A j \in 1 .. Len(lane.log) :
                 /\ lane.log[j].T = FwdTBefore(t, i, lane.log[j].idx)
                 /\ j = Len(lane.log) => lane.T_i = lane.log[j].T
            /\ lane.pc = "done" => lane.T_i = ROne

\* a finished pixel that undid two Gaussians, and one that undid a clamped
\* alpha and passed over a record below alpha_threshold
C17_Witness ==
  /\ BackwardDone
  /\ \E t \in RasterTiles : \E i \in BwdLanes :
       /\ Len(bwd[t][i].log) >= 2
       /\ image_alpha[BwdPixel(t, i)] # RZero
  /\ \E t \in RasterTiles : \E i \in BwdLanes :
       /\ Len(bwd[t][i].log) >= 1
       /\ bwd[t][i].log[1].alpha = clamp_max_alpha
       /\ Len(bwd[t][i].log) < image_last_valid[BwdPixel(t, i)] - start_offset(t)


\* the alpha the forward applied to the pixel of lane i for record k: 0 when
\* the record was skipped, refused or never reached
FwdAppliedAlpha(t, i, k) ==
  LET log == FwdLogOf(t, i)
      hit == {j \in 1 .. Len(log) : log[j].idx = k /\ log[j].applied}
  IN  IF hit = {} THEN RZero ELSE log[CHOOSE j \in hit : TRUE].alpha

\* the alpha the backward used for record k at that pixel: 0 when it took no
\* gradient for the record
BwdUsedAlpha(t, i, k) ==
  LET log == bwd[t][i].log
      hit == {j \in 1 .. Len(log) : log[j].idx = k}
  IN  IF hit = {} THEN RZero ELSE log[CHOOSE j \in hit : TRUE].alpha

\* C18: with one pixel per lane the backward replays the forward's
\* compositing: for every record it takes a gradient for, it uses the alpha
\* the forward applied, and when a pixel's replay is over the records with a
\* gradient are exactly the records the forward applied with an alpha that is
\* not zero, with the same alpha, over the whole range of the tile.
C18_BackwardReplaysForward ==
  phase = "backward" =>
    \A t \in RasterTiles : \A i \in BwdLanes :
      LET lane == bwd[t][i]
      IN  /\ \A j \in 1 .. Len(lane.log) :
               /\ lane.log[j].alpha # RZero
               /\ lane.log[j].alpha = FwdAppliedAlpha(t, i, lane.log[j].idx)
          /\ lane.pc = "done" =>
               \A k \in start_offset(t) .. end_offset(t) - 1 :
                 BwdUsedAlpha(t, i, k) = FwdAppliedAlpha(t, i, k)

\* a finished pixel for which the forward skipped one record below
\* alpha_threshold, applied one with the clamped alpha and refused a third
C18_Witness ==
  /\ BackwardDone
  /\ \E t \in RasterTiles : \E i \in BwdLanes :
       LET flog == FwdLogOf(t, i)
       IN  /\ \E j \in 1 .. Len(flog) : flog[j].applied /\ flog[j].alpha = RZero
           /\ \E j \in 1 .. Len(flog) : ~flog[j].applied
           /\ Len(bwd[t][i].log) = 1
           /\ bwd[t][i].log[1].alpha = clamp_max_alpha
           /\ bwd[t][i].log[1].raw = ROne


(***************************************************************************)
(* The block lane by lane.  ti.simt.block.sync() lets a lane go on when    *)
(* every lane of the block has arrived at the barrier; a lane that left    *)
(* the group loop never arrives.  The pc of a lane names the barrier the   *)
(* lane waits at: "load" the barrier at the top of the group loop,         *)
(* "render" and "compute" the barrier after the cooperative load, "flush"  *)
(* the barrier before the atomic adds.  One step of a lane passes its      *)
(* barrier and runs to the next one.                                       *)
(***************************************************************************)
\* the barriers a forward lane has passed
FwdBarriers(lane) == 2 * lane.group + (IF lane.pc = "render" THEN 1 ELSE 0)
FwdWaiting(lane) == lane.pc \in {"load", "render"}

\* (mutant of FwdBarrierReady: no barrier at the top of the group loop)
FwdBarrierNoTopSync(t, l) ==
  \/ fwd[t][l].pc = "load"
  \/ \A l2 \in Lanes :
       \/ FwdBarriers(fwd[t][l2]) > FwdBarriers(fwd[t][l])
       \/ /\ FwdBarriers(fwd[t][l2]) = FwdBarriers(fwd[t][l])
          /\ FwdWaiting(fwd[t][l2])

\* ti.simt.block.sync(): every lane of the block waits at this barrier or
\* has passed it
FwdBarrierReady(t, l) ==
  \A l2 \in Lanes :
    \/ FwdBarriers(fwd[t][l2]) > FwdBarriers(fwd[t][l])
    \/ /\ FwdBarriers(fwd[t][l2]) = FwdBarriers(fwd[t][l])
       /\ FwdWaiting(fwd[t][l2])

\* (mutant of FwdAfterGroup: a lane whose pixels are saturated leaves the
\* group loop)
FwdAfterGroupBreak(t, lane) ==
  IF lane.pixel_saturated THEN "write"
  ELSE IF lane.group + 1 < num_point_groups(t) THEN "load" ELSE "write"

\* where a lane goes after the in-group loop: the break leaves that loop only
FwdAfterGroup(t, lane) ==
  IF lane.group + 1 < num_point_groups(t) THEN "load" ELSE "write"

\* lane l passes the barrier at the top of the loop and loads its point
LaneFwdLoad(t, l) ==
  /\ phase = "forward"
  /\ fwd[t][l].pc = "load"
  /\ FwdBarrierReady(t, l)
  /\ fwd_scratch' =
       [fwd_scratch EXCEPT ![t][l] =
          LET load_index == FwdLoadIndex(t, fwd[t][l].group, l)
          IN  IF load_index < end_offset(t)
              THEN [idx |-> load_index, point |-> overlap_to_point[load_index]]
              ELSE @]
  /\ fwd' = [fwd EXCEPT ![t][l].pc = "render"]
  /\ UNCHANGED <<input_vars, phase, map_vars, bwd_vars,
                 image_feature, image_alpha, image_last_valid>>

\* lane l passes the barrier after the load and renders the group
LaneFwdRender(t, l) ==
  /\ phase = "forward"
  /\ fwd[t][l].pc = "render"
  /\ FwdBarrierReady(t, l)
  /\ fwd' =
       [fwd EXCEPT ![t][l] =
          LET lane == fwd[t][l]
              max_point_group_offset ==
                Min(block_area, tile_point_count(t) - lane.group * block_area)
              done == RenderGroup(lane, t, l, 0, max_point_group_offset,
                                  fwd_scratch[t])
          IN  [done EXCEPT !.group = lane.group + 1,
                           !.pc = FwdAfterGroup(t, done)]]
  /\ UNCHANGED <<input_vars, phase, map_vars, bwd_vars, fwd_scratch,
                 image_feature, image_alpha, image_last_valid>>

\* the barriers a backward lane has passed
BwdBarriers(lane) ==
  3 * lane.group + (CASE lane.pc = "compute" -> 1
                      [] lane.pc = "flush" -> 2
                      [] OTHER -> 0)
BwdWaiting(lane) == lane.pc \in {"load", "compute", "flush"}

BwdBarrierReady(t, i) ==
  \A j \in BwdLanes :
    \/ BwdBarriers(bwd[t][j]) > BwdBarriers(bwd[t][i])
    \/ /\ BwdBarriers(bwd[t][j]) = BwdBarriers(bwd[t][i])
       /\ BwdWaiting(bwd[t][j])

BwdGroupSizeOf(t, lane) ==
  Min(tile_area, bwd_point_count(t, lane) - lane.group * tile_area)

\* lane i passes the barrier at the top of the loop, loads its point and
\* zeroes the slot's gradients
LaneBwdLoad(t, i) ==
  /\ phase = "backward"
  /\ bwd[t][i].pc = "load"
  /\ BwdBarrierReady(t, i)
  /\ bwd_scratch' =
       [bwd_scratch EXCEPT ![t][thread_id(i)] =
          LET load_index == BwdLoadIndex(bwd[t][i], i)
          IN  IF load_index >= BwdBlockStart(bwd[t][i])
              THEN [idx |-> load_index, point |-> overlap_to_point[load_index],
                    grad_point |-> RZero, grad_feature |-> RZero]
              ELSE @]
  /\ bwd' = [bwd EXCEPT ![t][i].pc = "compute"]
  /\ UNCHANGED <<input_vars, phase, map_vars, fwd_vars, grad_points, grad_features>>

\* lane i passes the barrier after the load, runs the loop over the group
\* and adds its gradients to the scratch slots
LaneBwdCompute(t, i) ==
  /\ phase = "backward"
  /\ bwd[t][i].pc = "compute"
  /\ BwdBarrierReady(t, i)
  /\ bwd' =
       [bwd EXCEPT ![t][i] =
          [BwdGroup([@ EXCEPT !.grad = [s \in BwdLanes |-> NoGrad]],
                    t, i, 0, BwdGroupSizeOf(t, @), bwd_scratch[t])
             EXCEPT !.pc = "flush"]]
  /\ bwd_scratch' =
       [bwd_scratch EXCEPT ![t] =
          [s \in BwdLanes |->
             IF s < BwdGroupSizeOf(t, bwd[t][i])
             THEN [bwd_scratch[t][s] EXCEPT
                     !.grad_point = RAdd(@, bwd'[t][i].grad[s].grad_point),
                     !.grad_feature = RAdd(@, bwd'[t][i].grad[s].grad_feature)]
             ELSE bwd_scratch[t][s]]]
  /\ UNCHANGED <<input_vars, phase, map_vars, fwd_vars, grad_points, grad_features>>

\* where a lane goes after the atomic adds
BwdAfterGroup(t, lane) ==
  IF lane.group + 1 < bwd_num_point_groups(t, lane) THEN "load" ELSE "done"

\* lane i passes the barrier after the loop and adds its slot to the global
\* gradients
LaneBwdFlush(t, i) ==
  /\ phase = "backward"
  /\ bwd[t][i].pc = "flush"
  /\ BwdBarrierReady(t, i)
  /\ LET slot == bwd_scratch[t][thread_id(i)]
         loaded == BwdLoadIndex(bwd[t][i], i) >= BwdBlockStart(bwd[t][i])
     IN  /\ grad_points' =
              [g \in Points |->
                 IF loaded /\ g = slot.point
                 THEN RAdd(grad_points[g], slot.grad_point)
                 ELSE grad_points[g]]
         /\ grad_features' =
              [g \in Points |->
                 IF loaded /\ g = slot.point
                 THEN RAdd(grad_features[g], slot.grad_feature)
                 ELSE grad_features[g]]
  /\ bwd' = [bwd EXCEPT ![t][i] =
               [@ EXCEPT !.group = @ + 1, !.pc = BwdAfterGroup(t, bwd[t][i])]]
  /\ UNCHANGED <<input_vars, phase, map_vars, fwd_vars, bwd_scratch>>

\* Inputs of the lane-by-lane run: a 2x2 image (one tile), the Gaussians of
\* RasterKinds stacked in either depth order
LaneGaussians == 5
InitLanes ==
  /\ image_size = <<2, 2>>
  /\ pixel_stride \in PixelStrides
  /\ grad_image_feature =
       [pos \in (0 .. 1) \X (0 .. 1) |-> Rat(pos[1] + 1 - 2 * pos[2], 1)]
  /\ \E n \in 0 .. LaneGaussians :
       \E kinds \in [0 .. n - 1 -> RasterKinds] :
         \E nearest_first \in BOOLEAN :
           gaussians =
             [g \in 0 .. n - 1 |->
                Gaussian(kinds[g].uv, kinds[g].radius, kinds[g].alpha,
                         kinds[g].feature,
                         IF nearest_first THEN g ELSE n - 1 - g)]
  /\ InitRest

NextLanes ==
  \/ MapToTiles
  \/ FwdLaunch
  \/ \E t \in RasterTiles : \E l \in Lanes : LaneFwdLoad(t, l)
  \/ \E t \in RasterTiles : \E l \in Lanes : LaneFwdRender(t, l)
  \/ \E t \in RasterTiles : FwdWrite(t)
  \/ BwdLaunch
  \/ \E t \in RasterTiles : BwdReduce(t)
  \/ \E t \in RasterTiles : \E i \in BwdLanes : LaneBwdLoad(t, i)
  \/ \E t \in RasterTiles : \E i \in BwdLanes : LaneBwdCompute(t, i)
  \/ \E t \in RasterTiles : \E i \in BwdLanes : LaneBwdFlush(t, i)
SpecLanes == InitLanes /\ [][NextLanes]_vars


(***************************************************************************)
(* Claims about the barriers and the scratch memory, under SpecLanes.      *)
(***************************************************************************)
\* C19: saturation of a pixel never ends the tile.  A forward lane leaves
\* the group loop only after all num_point_groups groups, saturated or not,
\* and a backward lane only after all its groups, so every lane of a block
\* passes the same number of barriers; whenever a lane waits at a barrier
\* some waiting lane of the block can pass, so a block stops only after its
\* last group, and a
\* pixel no record was refused for has evaluated every record of the tile's
\* range, in ascending order.
C19_SaturationKeepsTileRunning ==
  /\ Started =>
       \A t \in RasterTiles : \A l \in Lanes :
         LET lane == fwd[t][l]
         IN  /\ lane.group <= num_point_groups(t)
             /\ lane.pc \in {"write", "done"} =>
                  /\ lane.group = num_point_groups(t)
                  /\ \A i \in LanePixels :
                       (\A j \in 1 .. Len(lane.log[i]) : lane.log[i][j].applied) =>
                         /\ Len(lane.log[i]) = tile_point_count(t)
                         /\ \A j \in 1 .. Len(lane.log[i]) :
                              lane.log[i][j].idx = start_offset(t) + j - 1
             /\ IF \E l2 \in Lanes : FwdWaiting(fwd[t][l2])
                THEN \E l2 \in Lanes :
                       FwdWaiting(fwd[t][l2]) /\ FwdBarrierReady(t, l2)
                ELSE FwdAt(t, "write") \/ FwdAt(t, "done")
  /\ phase = "backward" =>
       \A t \in RasterTiles : \A i \in BwdLanes :
         LET lane == bwd[t][i]
         IN  /\ lane.pc = "done" => lane.group = bwd_num_point_groups(t, lane)
             /\ bwd_num_point_groups(t, lane)
                  = bwd_num_point_groups(t, bwd[t][0])
             /\ IF \E j \in BwdLanes : BwdWaiting(bwd[t][j])
                THEN \E j \in BwdLanes :
                       BwdWaiting(bwd[t][j]) /\ BwdBarrierReady(t, j)
                ELSE BwdAt(t, "reduce") \/ BwdAt(t, "done")

\* a saturated lane waits at the top barrier of a later group together with
\* a lane that is not saturated, and the whole run has finished elsewhere
C19_Witness ==
  /\ phase = "forward"
  /\ \E t \in RasterTiles : \E l, l2 \in Lanes :
       /\ fwd[t][l].pixel_saturated /\ fwd[t][l].pc = "load"
       /\ fwd[t][l].group >= 1
       /\ ~fwd[t][l2].pixel_saturated /\ fwd[t][l2].pc = "render"
       /\ fwd[t][l2].group >= 1

\* what the lanes in `ran` hold for slot s in their registers
RECURSIVE SumOfLanes(_, _, _, _)
SumOfLanes(lanes, ran, s, field) ==
  IF ran = {} THEN RZero
  ELSE LET j == CHOOSE x \in ran : TRUE
       IN  RAdd(lanes[j].grad[s][field], SumOfLanes(lanes, ran \ {j}, s, field))

\* C20: a lane that passes the barrier after the cooperative load finds in
\* every slot of the group the record this group's load put there (forward:
\* slot s holds record start_offset + group * block_area + s; backward: slot
\* s holds record end_offset - group * tile_area - s - 1, its accumulators
\* hold exactly what the lanes that ran this group's loop added), a backward
\* lane that passes the barrier before the atomic adds finds in its slot the
\* sum of all lanes, and a lane that passes the barrier at the top of the
\* loop overwrites its slot only when no lane is still before that barrier.
C20_ScratchProducerConsumer ==
  /\ Started =>
       \A t \in RasterTiles : \A l \in Lanes :
         LET lane == fwd[t][l]
         IN  /\ (lane.pc = "render" /\ FwdBarrierReady(t, l)) =>
                  \A s \in 0 .. Min(block_area,
                                    tile_point_count(t) - lane.group * block_area) - 1 :
                    /\ fwd_scratch[t][s].idx = FwdLoadIndex(t, lane.group, s)
                    /\ fwd_scratch[t][s].point
                         = overlap_to_point[FwdLoadIndex(t, lane.group, s)]
             /\ (lane.pc = "load" /\ FwdBarrierReady(t, l)) =>
                  \A l2 \in Lanes : FwdBarriers(fwd[t][l2]) >= FwdBarriers(lane)
             /\ \A i \in LanePixels : \A j \in 1 .. Len(lane.log[i]) :
                  lane.log[i][j].idx = start_offset(t) + j - 1
  /\ phase = "backward" =>
       \A t \in RasterTiles : \A i \in BwdLanes :
         LET lane == bwd[t][i]
             ran == {j \in BwdLanes :
                       bwd[t][j].pc = "flush" /\ bwd[t][j].group = lane.group}
             base == lane.end_offset - lane.group * tile_area
         IN  /\ (lane.pc = "compute" /\ BwdBarrierReady(t, i)) =>
                  \A s \in 0 .. BwdGroupSizeOf(t, lane) - 1 :
                    /\ bwd_scratch[t][s].idx = base - s - 1
                    /\ bwd_scratch[t][s].point = overlap_to_point[base - s - 1]
                    /\ bwd_scratch[t][s].grad_point
                         = SumOfLanes(bwd[t], ran, s, "grad_point")
                    /\ bwd_scratch[t][s].grad_feature
                         = SumOfLanes(bwd[t], ran, s, "grad_feature")
             /\ (lane.pc = "flush" /\ BwdBarrierReady(t, i)) =>
                  \A s \in 0 .. BwdGroupSizeOf(t, lane) - 1 :
                    /\ bwd_scratch[t][s].idx = base - s - 1
                    /\ bwd_scratch[t][s].grad_point
                         = SumGradPoint(bwd[t], s, tile_area)
                    /\ bwd_scratch[t][s].grad_feature
                         = SumGradFeature(bwd[t], s, tile_area)
             /\ (lane.pc = "load" /\ BwdBarrierReady(t, i)) =>
                  \A j \in BwdLanes : BwdBarriers(bwd[t][j]) >= BwdBarriers(lane)

\* the forward rendered a partial last group, and a backward lane is about
\* to run the loop of a second group after another lane added a gradient
C20_Witness ==
  /\ phase = "backward"
  /\ \E t \in RasterTiles : \E i, j \in BwdLanes :
       /\ fwd[t][0].group >= 2
       /\ tile_point_count(t) % block_area # 0
       /\ bwd[t][i].pc = "compute" /\ BwdBarrierReady(t, i)
       /\ bwd[t][i].group >= 1
       /\ bwd[t][j].pc = "flush"
       /\ \E s \in BwdLanes : bwd[t][j].grad[s].grad_point # RZero


(***************************************************************************)
(* Claims about the range of the backward and about the clamp, under Spec. *)
(***************************************************************************)
\* the sorted-overlap indices of tile t the backward works on
BwdOwnRange(t, lane) == start_offset(t) .. lane.end_offset - 1

\* C21: every sorted-overlap index a lane of tile t has loaded from
\* overlap_to_point lies in the tile's own range [start, end_offset), and
\* every slot the block is about to add to a global gradient holds a record
\* of that range.
C21_BackwardStaysInRange ==
  phase = "backward" =>
    \A t \in RasterTiles :
      /\ \A s \in BwdLanes :
           bwd_scratch[t][s].idx # -1 =>
             bwd_scratch[t][s].idx \in BwdOwnRange(t, bwd[t][0])
      /\ BwdAt(t, "flush") =>
           \A s \in BwdLoadedSlots(t) :
             bwd_scratch[t][s].idx \in BwdOwnRange(t, bwd[t][0])

\* what the slots loaded from outside the tile's range carry to the atomic
\* add: nothing was accumulated into them
C21_OutsideSlotsAddZero ==
  phase = "backward" =>
    \A t \in RasterTiles :
      BwdAt(t, "flush") =>
        \A s \in BwdLoadedSlots(t) :
          bwd_scratch[t][s].idx \notin BwdOwnRange(t, bwd[t][0]) =>
            /\ bwd_scratch[t][s].grad_point = RZero
            /\ bwd_scratch[t][s].grad_feature = RZero

\* a block about to add a slot that holds a Gaussian of another tile only
C21_OutsideSlotReached ==
  /\ phase = "backward"
  /\ \E t \in RasterTiles :
       /\ BwdAt(t, "flush")
       /\ \E s \in BwdLoadedSlots(t) :
            /\ bwd_scratch[t][s].idx < start_offset(t)
            /\ \A k \in RangeOf(t) :
                 overlap_to_point[k] # bwd_scratch[t][s].point


\* C22: a pixel whose raw alpha for a record exceeds clamp_max_alpha hands
\* in a zero gradient for the Gaussian's entry in grad_points, and the
\* transmittance undo, the w_i update and the feature gradient of that
\* record use the clamped alpha.
C22_ClampHasZeroGradient ==
  phase = "backward" =>
    \A t \in RasterTiles : \A i \in BwdLanes :
      \A j \in 1 .. Len(bwd[t][i].log) :
        LET e == bwd[t][i].log[j]
        IN  RLt(clamp_max_alpha, e.raw) =>
              /\ e.grad_point = RZero
              /\ e.alpha = clamp_max_alpha
              /\ e.grad_feature
                   = RMul(RMul(clamp_max_alpha, e.T), bwd[t][i].grad_pixel_feature)

\* the part about the clamped alpha alone: T is undone with it and the
\* feature gradient is taken with it
C22_ClampedAlphaUsed ==
  phase = "backward" =>
    \A t \in RasterTiles : \A i \in BwdLanes :
      \A j \in 1 .. Len(bwd[t][i].log) :
        LET e == bwd[t][i].log[j]
            T_after == IF j = 1 THEN RSub(ROne, image_alpha[BwdPixel(t, i)])
                       ELSE bwd[t][i].log[j - 1].T
        IN  RLt(clamp_max_alpha, e.raw) =>
              /\ e.alpha = clamp_max_alpha
              /\ e.T = RDiv(T_after, RSub(ROne, clamp_max_alpha))
              /\ e.grad_feature
                   = RMul(RMul(clamp_max_alpha, e.T), bwd[t][i].grad_pixel_feature)

\* a pixel took a gradient for a record whose raw alpha is above the clamp
C22_ClampedRecordReached ==
  /\ phase = "backward"
  /\ \E t \in RasterTiles : \E i \in BwdLanes :
       \E j \in 1 .. Len(bwd[t][i].log) :
         /\ RLt(clamp_max_alpha, bwd[t][i].log[j].raw)
         /\ bwd[t][i].log[j].grad_point # RZero

====
